---------------------------- MODULE Spec2Model ----------------------------
(***************************************************************************)
(* Model of BetterThinkingToolLogic (src/src/better-thinking-tool.ts): the *)
(* validator, the history/branch store, the renderer (formatThought) and   *)
(* the response assembly of processThought, over dynamically typed         *)
(* JavaScript input values, and of its request handler (src/index.ts).     *)
(***************************************************************************)
EXTENDS Integers, Sequences, FiniteSets, TLC

VARIABLES
    thoughtHistory,   \* private thoughtHistory: ThoughtData[]
    branches,         \* private branches: Record<string, ThoughtData[]> (own properties)
    lastInput,        \* the raw argument of the most recent processThought call
    lastResult,       \* what that call returned (or the error that escaped it)
    stderr,           \* the diagnostics that call wrote (console.warn / console.error)
    calls,            \* number of processThought calls made so far
    successes,        \* number of those calls that returned status "success"
    handlers          \* the tool requests in flight, by request id: argument and position of the handler

vars == <<thoughtHistory, branches, lastInput, lastResult, stderr, calls, successes, handlers>>

(***************************************************************************)
(* JavaScript values.  A number is int + frac/10 (frac in 0..9) or NaN, so *)
(* that Number.isInteger and the range comparisons are computed, not       *)
(* assumed.  An absent property reads as undefined.                        *)
(***************************************************************************)
Undef == [t |-> "undefined"]
Null == [t |-> "null"]
Str(s) == [t |-> "string", s |-> s]
Bool(b) == [t |-> "boolean", b |-> b]
Num(i) == [t |-> "number", nan |-> FALSE, int |-> i, frac |-> 0]
Frac(i, f) == [t |-> "number", nan |-> FALSE, int |-> i, frac |-> f]
NaN == [t |-> "number", nan |-> TRUE, int |-> 0, frac |-> 0]
Arr(items) == [t |-> "array", items |-> items]
KaItem(entity, status) == [t |-> "object", entity |-> entity, status |-> status]

\* typeof v
TypeOf(v) == IF v.t \in {"null", "array"} THEN "object" ELSE v.t

\* ToBoolean(v), as used by !x, a && b and if (x)
Truthy(v) ==
    CASE v.t = "undefined" -> FALSE
      [] v.t = "null" -> FALSE
      [] v.t = "boolean" -> v.b
      [] v.t = "string" -> v.s # ""
      [] v.t = "number" -> ~v.nan /\ ~(v.int = 0 /\ v.frac = 0)
      [] OTHER -> TRUE

\* Number.isInteger(v)
IsInteger(v) == v.t = "number" /\ ~v.nan /\ v.frac = 0

\* v < k and v > k for a number v and an integer literal k (false for NaN)
NumLess(v, k) == ~v.nan /\ v.int < k
NumGreater(v, k) == ~v.nan /\ (v.int > k \/ (v.int = k /\ v.frac > 0))

\* data.<key> on an object value; a property that is not there reads undefined
Get(data, key) == IF key \in DOMAIN data THEN data[key] ELSE Undef

(***************************************************************************)
(* validateThoughtData: the outcome is either a returned ThoughtData       *)
(* (thrown = FALSE) or a thrown error with its message (thrown = TRUE).    *)
(***************************************************************************)
Thrown(msg) == [thrown |-> TRUE, error |-> msg]
Returned(step, warnings) == [thrown |-> FALSE, value |-> step, warnings |-> warnings]

\* the messages of the thrown errors (written here without the source's backquotes)
MsgThought == "Invalid input: thought is required and must be a non-empty string."
MsgThoughtNumber == "Invalid input: thoughtNumber is required and must be a positive integer."
MsgTotalThoughts == "Invalid input: totalThoughts is required and must be a positive integer."
MsgNextThoughtNeeded == "Invalid input: nextThoughtNeeded is required and must be a boolean."
MsgConfidence == "Invalid input: confidence_score must be a number between 0.0 and 1.0."
MsgKaArray == "Invalid input: knowledge_assessment must be an array."
MsgKaItem(index) == "Invalid item in knowledge_assessment at index " \o ToString(index)
MsgKaObject(index) == MsgKaItem(index) \o ": must be an object."
MsgKaEntity(index) == MsgKaItem(index) \o ": missing or invalid 'entity' string."
MsgKaStatus(index) == MsgKaItem(index) \o ": 'status' must be 'known', 'unknown', or 'uncertain'."
\* reading a property of null / undefined (the engine's TypeError)
MsgNullish(v) == "Cannot read properties of " \o v.t \o " (reading 'thought')"
MsgPush == "this.branches[validatedInput.branchId].push is not a function"

KaStatuses == {"known", "unknown", "uncertain"}

\* (mutant) the entity check without its emptiness test
KaItemErrorMissesEmptyEntity(item, index) ==
    IF TypeOf(item) # "object" \/ item.t = "null" THEN MsgKaObject(index)
    ELSE IF TypeOf(Get(item, "entity")) # "string" THEN MsgKaEntity(index)
    ELSE IF ~(Get(item, "status").t = "string" /\ Get(item, "status").s \in KaStatuses)
         THEN MsgKaStatus(index)
    ELSE ""

\* the first check an element of knowledge_assessment fails, "" when it passes;
\* index is the element's 0-based array index
KaItemError(item, index) ==
    IF TypeOf(item) # "object" \/ item.t = "null" THEN MsgKaObject(index)
    ELSE IF TypeOf(Get(item, "entity")) # "string" \/ ~Truthy(Get(item, "entity"))
         THEN MsgKaEntity(index)
    ELSE IF ~(Get(item, "status").t = "string" /\ Get(item, "status").s \in KaStatuses)
         THEN MsgKaStatus(index)
    ELSE ""

\* Array.prototype.map over the elements from position i on: the callback
\* throws at the first offending element, otherwise the copies are collected
RECURSIVE KaMap(_, _, _)
KaMap(items, i, acc) ==
    IF i > Len(items) THEN [thrown |-> FALSE, value |-> acc]
    ELSE IF KaItemError(items[i], i - 1) # "" THEN Thrown(KaItemError(items[i], i - 1))
    ELSE KaMap(items, i + 1,
               Append(acc, KaItem(items[i].entity, items[i].status)))

\* the optional fields that are kept when well-typed and dropped otherwise
BoolOrUndef(v) == IF TypeOf(v) = "boolean" THEN v ELSE Undef
PositiveIntOrUndef(v) == IF TypeOf(v) = "number" /\ IsInteger(v) /\ ~NumLess(v, 1) THEN v ELSE Undef
StringOrUndef(v) == IF TypeOf(v) = "string" THEN v ELSE Undef

\* the console.warn calls of validateThoughtData, in order
ValidationWarnings(isRevision, revisesThought, branchFromThought, branchId, needsMoreThoughts) ==
    (IF Truthy(isRevision) /\ revisesThought = Undef THEN <<"warn: isRevision without revisesThought">> ELSE <<>>)
    \o (IF Truthy(branchFromThought) /\ branchId = Undef THEN <<"warn: branchFromThought without branchId">> ELSE <<>>)
    \o (IF needsMoreThoughts # Undef THEN <<"warn: needsMoreThoughts is deprecated">> ELSE <<>>)

\* (mutant) revisesThought filled from the branchFromThought property
ThoughtDataCopiesBranchFrom(data, confidence_score, knowledge_assessment) ==
    [thought |-> data.thought,
     thoughtNumber |-> data.thoughtNumber,
     totalThoughts |-> data.totalThoughts,
     nextThoughtNeeded |-> data.nextThoughtNeeded,
     confidence_score |-> confidence_score,
     knowledge_assessment |-> knowledge_assessment,
     isRevision |-> BoolOrUndef(Get(data, "isRevision")),
     revisesThought |-> PositiveIntOrUndef(Get(data, "branchFromThought")),
     branchFromThought |-> PositiveIntOrUndef(Get(data, "branchFromThought")),
     branchId |-> StringOrUndef(Get(data, "branchId"))]

\* the object literal validateThoughtData returns
ThoughtData(data, confidence_score, knowledge_assessment) ==
    [thought |-> data.thought,
     thoughtNumber |-> data.thoughtNumber,
     totalThoughts |-> data.totalThoughts,
     nextThoughtNeeded |-> data.nextThoughtNeeded,
     confidence_score |-> confidence_score,
     knowledge_assessment |-> knowledge_assessment,
     isRevision |-> BoolOrUndef(Get(data, "isRevision")),
     revisesThought |-> PositiveIntOrUndef(Get(data, "revisesThought")),
     branchFromThought |-> PositiveIntOrUndef(Get(data, "branchFromThought")),
     branchId |-> StringOrUndef(Get(data, "branchId"))]

\* (mutant) the required-field checks without the lower bound on thoughtNumber
RequiredFieldErrorAllowsZero(data) ==
    LET thought == Get(data, "thought")
        thoughtNumber == Get(data, "thoughtNumber")
        totalThoughts == Get(data, "totalThoughts")
        nextThoughtNeeded == Get(data, "nextThoughtNeeded")
    IN
    IF ~Truthy(thought) \/ TypeOf(thought) # "string" THEN MsgThought
    ELSE IF TypeOf(thoughtNumber) # "number" \/ ~IsInteger(thoughtNumber) THEN MsgThoughtNumber
    ELSE IF TypeOf(totalThoughts) # "number" \/ ~IsInteger(totalThoughts) \/ NumLess(totalThoughts, 1)
         THEN MsgTotalThoughts
    ELSE IF TypeOf(nextThoughtNeeded) # "boolean" THEN MsgNextThoughtNeeded
    ELSE ""

\* the required-field checks, in order: the message of the first that fails,
\* "" when all pass
RequiredFieldError(data) ==
    LET thought == Get(data, "thought")
        thoughtNumber == Get(data, "thoughtNumber")
        totalThoughts == Get(data, "totalThoughts")
        nextThoughtNeeded == Get(data, "nextThoughtNeeded")
    IN
    IF ~Truthy(thought) \/ TypeOf(thought) # "string" THEN MsgThought
    ELSE IF TypeOf(thoughtNumber) # "number" \/ ~IsInteger(thoughtNumber) \/ NumLess(thoughtNumber, 1)
         THEN MsgThoughtNumber
    ELSE IF TypeOf(totalThoughts) # "number" \/ ~IsInteger(totalThoughts) \/ NumLess(totalThoughts, 1)
         THEN MsgTotalThoughts
    ELSE IF TypeOf(nextThoughtNeeded) # "boolean" THEN MsgNextThoughtNeeded
    ELSE ""

\* the confidence_score check: its message, "" when the field is absent or passes
ConfidenceError(data) ==
    LET cs == Get(data, "confidence_score") IN
    IF cs # Undef /\ (TypeOf(cs) # "number" \/ NumLess(cs, 0) \/ NumGreater(cs, 1))
    THEN MsgConfidence
    ELSE ""

\* the knowledge_assessment check: absent, no array (throws), or mapped
\* element by element
KnowledgeAssessment(data) ==
    LET ka == Get(data, "knowledge_assessment") IN
    IF ka = Undef THEN [thrown |-> FALSE, value |-> Undef]
    ELSE IF ka.t # "array" THEN Thrown(MsgKaArray)
    ELSE LET mapped == KaMap(ka.items, 1, <<>>) IN
         IF mapped.thrown THEN mapped ELSE [thrown |-> FALSE, value |-> Arr(mapped.value)]

validateThoughtData(input) ==
    \* `data.thought` on null or undefined is a TypeError
    IF input.t \in {"undefined", "null"} THEN Thrown(MsgNullish(input))
    ELSE IF RequiredFieldError(input) # "" THEN Thrown(RequiredFieldError(input))
    ELSE IF ConfidenceError(input) # "" THEN Thrown(ConfidenceError(input))
    ELSE LET ka == KnowledgeAssessment(input) IN
         IF ka.thrown THEN ka
         ELSE Returned(
                ThoughtData(input, Get(input, "confidence_score"), ka.value),
                ValidationWarnings(BoolOrUndef(Get(input, "isRevision")),
                                   PositiveIntOrUndef(Get(input, "revisesThought")),
                                   PositiveIntOrUndef(Get(input, "branchFromThought")),
                                   StringOrUndef(Get(input, "branchId")),
                                   BoolOrUndef(Get(input, "needsMoreThoughts"))))

(***************************************************************************)
(* The history/branch store.  branches is a plain object literal, so a     *)
(* key that is not an own property is still looked up on Object.prototype. *)
(***************************************************************************)
ObjectPrototypeKeys ==
    {"constructor", "__proto__", "toString", "toLocaleString", "valueOf",
     "hasOwnProperty", "isPrototypeOf", "propertyIsEnumerable"}

\* this.branches[key]: an own array, an inherited member, or undefined
BranchLookup(br, key) ==
    IF key \in DOMAIN br THEN "own"
    ELSE IF key \in ObjectPrototypeKeys THEN "inherited"
    ELSE "undefined"

\* (mutant) no adjustment of totalThoughts
AdjustTotalThoughtsSkipped(step) == step

\* step 2: totalThoughts is raised to thoughtNumber when thoughtNumber exceeds it
AdjustTotalThoughts(step) ==
    IF step.thoughtNumber.int > step.totalThoughts.int
    THEN [step EXCEPT !.totalThoughts = step.thoughtNumber]
    ELSE step

AdjustWarnings(step) ==
    IF step.thoughtNumber.int > step.totalThoughts.int
    THEN <<"warn: thoughtNumber exceeds totalThoughts">>
    ELSE <<>>

\* (mutant) the branch's sequence is replaced by the new step, not extended
HandleBranchingResets(br, step) ==
    IF Truthy(step.branchFromThought) /\ Truthy(step.branchId)
    THEN LET key == step.branchId.s IN
         IF BranchLookup(br, key) = "inherited"
         THEN [thrown |-> TRUE, error |-> MsgPush, branches |-> br, log |-> <<>>]
         ELSE [thrown |-> FALSE,
               branches |-> [k \in DOMAIN br \cup {key} |-> IF k = key THEN <<step>> ELSE br[k]],
               log |-> <<>>]
    ELSE [thrown |-> FALSE, branches |-> br, log |-> <<>>]

\* step 4: the branch bookkeeping; pushing onto an inherited member that is
\* no array throws a TypeError
HandleBranching(br, step) ==
    IF Truthy(step.branchFromThought) /\ Truthy(step.branchId)
    THEN LET key == step.branchId.s
             found == BranchLookup(br, key)
             created == IF found = "undefined"
                        THEN [k \in DOMAIN br \cup {key} |-> IF k = key THEN <<>> ELSE br[k]]
                        ELSE br
             log == IF found = "undefined" THEN <<"branch: start " \o key>> ELSE <<>>
         IN IF found = "inherited"
            THEN [thrown |-> TRUE, error |-> MsgPush, branches |-> created, log |-> log]
            ELSE [thrown |-> FALSE,
                  branches |-> [created EXCEPT ![key] = Append(created[key], step)],
                  log |-> log]
    ELSE [thrown |-> FALSE, branches |-> br, log |-> <<>>]

\* step 6: the success payload (the text is JSON.stringify of this record)
SuccessResponse(step, hist, br) ==
    [content |-> [status |-> "success",
                  thought_number_processed |-> step.thoughtNumber.int,
                  current_total_thoughts |-> step.totalThoughts.int,
                  next_thought_needed |-> step.nextThoughtNeeded.b,
                  active_branches |-> DOMAIN br,
                  total_history_length |-> Len(hist)]]

\* (mutant) the catch block rethrows instead of returning a payload
FailureResponseRethrown(msg) == [escaped |-> msg]

\* steps 7-8: the catch block's payload, flagged isError
FailureResponse(msg) ==
    [content |-> [status |-> "failed", error |-> msg], isError |-> TRUE]

(***************************************************************************)
(* Rendering (formatThought).  TLC's strings are atomic, so a JavaScript   *)
(* string that is measured, split or stripped is a sequence of tokens: a   *)
(* run of ordinary characters, an SGR control sequence (ESC followed by    *)
(* the token's characters) or a line break.  The literals of the source    *)
(* that are not ASCII are written with ASCII stand-ins of the same number  *)
(* of UTF-16 code units, which is what length, padEnd and repeat count.    *)
(***************************************************************************)
Txt(s) == [k |-> "txt", s |-> s]
Esc(s) == [k |-> "esc", s |-> s]
Nl == [k |-> "nl", s |-> ""]

\* str.length
RECURSIVE Length(_)
Length(str) ==
    IF str = <<>> THEN 0
    ELSE (CASE Head(str).k = "txt" -> Len(Head(str).s)
            [] Head(str).k = "esc" -> 1 + Len(Head(str).s)
            [] Head(str).k = "nl" -> 1)
         + Length(Tail(str))

\* the control sequences chalk emits (ESC [ digits m) all match ansiRegex
stripAnsi(str) ==
    LET Kept(token) == token.k # "esc" IN SelectSeq(str, Kept)

\* str.split('\n')
RECURSIVE Split(_)
Split(str) ==
    IF \A i \in 1..Len(str) : str[i].k # "nl" THEN <<str>>
    ELSE LET i == CHOOSE j \in 1..Len(str) :
                      str[j].k = "nl" /\ \A m \in 1..j - 1 : str[m].k # "nl"
         IN <<SubSeq(str, 1, i - 1)>> \o Split(SubSeq(str, i + 1, Len(str)))

\* lines.join('\n')
RECURSIVE Join(_)
Join(lines) ==
    IF lines = <<>> THEN <<>>
    ELSE IF Len(lines) = 1 THEN lines[1]
    ELSE lines[1] \o <<Nl>> \o Join(Tail(lines))

\* s.repeat(n)
RECURSIVE Repeat(_, _)
Repeat(s, n) == IF n <= 0 THEN "" ELSE s \o Repeat(s, n - 1)

\* str.padEnd(n): pads by str.length, control sequences included
PadEnd(str, n) ==
    IF Length(str) >= n THEN str
    ELSE str \o <<Txt(Repeat(" ", n - Length(str)))>>

\* chalk.<colour>(s): wrapped in the colour's SGR codes when chalk's colour
\* support is on in the process (colored), returned as it is when it is off
Chalk(colored, code, s) ==
    IF colored THEN <<Esc("[" \o code \o "m"), Txt(s), Esc("[39m")>> ELSE <<Txt(s)>>

\* the string literals of lines 164-170 and 190-210
ThoughtLabel == "**** Thought"
RevisionLabel == "**** Revision"
BranchLabel == "**** Branch"
Horizontal == "---"
Dot == ".."
TopLeft == ".--"
TopRight == "--."
TeeLeft == "|--"
TeeRight == "--|"
BottomLeft == "'--"
BottomRight == "--'"
Vertical == "[|]"

\* the thought texts of the inputs that hold a line break, token by token
TwoLineThought == "a first line / a second and rather longer line"
CodeUnits(s) ==
    IF s = TwoLineThought
    THEN <<Txt("a first line"), Nl, Txt("a second and rather longer line")>>
    ELSE <<Txt(s)>>

\* Number.prototype.toFixed(2) of a stored confidence_score
ToFixed2(v) ==
    IF v.nan THEN "NaN" ELSE ToString(v.int) \o "." \o ToString(v.frac) \o "0"

\* (mutant) the branch test comes first
ThoughtKindBranchFirst(step) ==
    IF Truthy(step.branchFromThought) /\ Truthy(step.branchId) THEN "branch"
    ELSE IF Truthy(step.isRevision) /\ Truthy(step.revisesThought) THEN "revision"
    ELSE "thought"

\* lines 164-172: which prefix and context the header gets
ThoughtKind(step) ==
    IF Truthy(step.isRevision) /\ Truthy(step.revisesThought) THEN "revision"
    ELSE IF Truthy(step.branchFromThought) /\ Truthy(step.branchId) THEN "branch"
    ELSE "thought"

\* line 174
Header(step, colored) ==
    LET kind == ThoughtKind(step)
        prefix == CASE kind = "revision" -> Chalk(colored, "33", RevisionLabel)
                    [] kind = "branch" -> Chalk(colored, "32", BranchLabel)
                    [] OTHER -> Chalk(colored, "34", ThoughtLabel)
        context == CASE kind = "revision" ->
                          " (revising thought " \o ToString(step.revisesThought.int) \o ")"
                     [] kind = "branch" ->
                          " (from thought " \o ToString(step.branchFromThought.int)
                              \o ", ID: " \o step.branchId.s \o ")"
                     [] OTHER -> ""
    IN prefix \o <<Txt(" " \o ToString(step.thoughtNumber.int) \o "/"
                           \o ToString(step.totalThoughts.int) \o context)>>

\* lines 177-182: the optional lines ("" when the field is absent)
ConfidenceLine(step, colored) ==
    IF step.confidence_score # Undef
    THEN <<Txt("Confidence: ")>> \o Chalk(colored, "36", ToFixed2(step.confidence_score))
    ELSE <<>>

KnowledgeLines(step, colored) ==
    LET ka == step.knowledge_assessment
        Item(i) == <<Txt("  - ")>> \o Chalk(colored, "33", ka.items[i].entity.s)
                       \o <<Txt(": ")>> \o Chalk(colored, "35", ka.items[i].status.s)
    IN  IF ka # Undef /\ Len(ka.items) > 0
        THEN <<Txt("Knowledge Assessment:"), Nl>> \o Join([i \in 1..Len(ka.items) |-> Item(i)])
        ELSE <<>>

\* a bordered row: the text padded to maxWidth between two vertical bars
Row(str, maxWidth) == <<Txt(Vertical), Txt(" ")>> \o PadEnd(str, maxWidth) \o <<Txt(" "), Txt(Vertical)>>

\* the rows of one content line, after the dotted separator when it is not the first
RECURSIVE ContentRows(_, _, _)
ContentRows(lines, index, maxWidth) ==
    IF index > Len(lines) THEN <<>>
    ELSE LET separator == <<Txt(TeeLeft), Txt(Repeat(Dot, maxWidth + 2)), Txt(TeeRight)>>
             subLines == Split(lines[index])
         IN (IF index > 1 THEN <<Nl>> \o separator ELSE <<>>)
            \o <<Nl>> \o Join([i \in 1..Len(subLines) |-> Row(subLines[i], maxWidth)])
            \o ContentRows(lines, index + 1, maxWidth)

SeqMax(q) == IF q = <<>> THEN 0 ELSE CHOOSE m \in {q[i] : i \in 1..Len(q)} : \A i \in 1..Len(q) : q[i] <= m

\* formatThought: the frame as one string, its lines separated by "\n", in a
\* process whose colour support is on (colored) or off
formatThought(step, colored) ==
    LET header == Header(step, colored)
        NonEmpty(str) == str # <<>>
        coreContentLines ==
            SelectSeq(<<CodeUnits(step.thought.s), ConfidenceLine(step, colored), KnowledgeLines(step, colored)>>, NonEmpty)
        FlatSplit[i \in 0..Len(coreContentLines)] ==
            IF i = 0 THEN <<>> ELSE FlatSplit[i - 1] \o Split(coreContentLines[i])
        allLinesForWidth == <<header>> \o FlatSplit[Len(coreContentLines)]
        maxWidth == SeqMax([i \in 1..Len(allLinesForWidth) |-> Length(stripAnsi(allLinesForWidth[i]))])
        border == Repeat(Horizontal, maxWidth + 2)
    IN  <<Nl, Txt(TopLeft), Txt(border), Txt(TopRight), Nl>> \o Row(header, maxWidth)
        \o (IF Len(coreContentLines) > 0
            THEN <<Nl, Txt(TeeLeft), Txt(border), Txt(TeeRight)>>
                    \o ContentRows(coreContentLines, 1, maxWidth)
            ELSE <<>>)
        \o <<Nl, Txt(BottomLeft), Txt(border), Txt(BottomRight)>>

\* the whole of processThought on the store (hist, br): the store it leaves,
\* the value it returns and what it logs ("frame" stands for the formatThought
\* text written by console.error at step 5, which changes nothing in the
\* store; LoggedFrame below is that text)
ProcessThoughtOutcome(hist, br, input) ==
    LET v == validateThoughtData(input) IN
    IF v.thrown
    THEN [history |-> hist, branches |-> br,
          result |-> FailureResponse(v.error),
          stderr |-> <<"error: " \o v.error>>]
    ELSE LET step == AdjustTotalThoughts(v.value)
             pushed == Append(hist, step)
             b == HandleBranching(br, step)
         IN IF b.thrown
            THEN [history |-> pushed, branches |-> b.branches,
                  result |-> FailureResponse(b.error),
                  stderr |-> v.warnings \o AdjustWarnings(v.value) \o b.log
                             \o <<"error: " \o b.error>>]
            ELSE [history |-> pushed, branches |-> b.branches,
                  result |-> SuccessResponse(step, pushed, b.branches),
                  stderr |-> v.warnings \o AdjustWarnings(v.value) \o b.log
                             \o <<"frame">>]

(***************************************************************************)
(* Inputs.                                                                 *)
(***************************************************************************)
RawObject(thought, thoughtNumber, totalThoughts, nextThoughtNeeded, more) ==
    [k \in {"t", "thought", "thoughtNumber", "totalThoughts", "nextThoughtNeeded"}
           \cup DOMAIN more |->
        CASE k = "t" -> "object"
          [] k = "thought" -> thought
          [] k = "thoughtNumber" -> thoughtNumber
          [] k = "totalThoughts" -> totalThoughts
          [] k = "nextThoughtNeeded" -> nextThoughtNeeded
          [] OTHER -> more[k]]

NoMore == [k \in {} |-> Undef]

\* the four required fields of a well-formed call
ValidObject(more) == RawObject(Str("t"), Num(5), Num(3), Bool(TRUE), more)

MaxCalls == 3    \* calls explored on one store instance
MaxKaLen == 2    \* longest knowledge_assessment array explored

\* every combination of well-formed, ill-formed and absent required fields
RequiredInputs ==
    {RawObject(th, tn, tt, ntn, NoMore) :
        th \in {Undef, Str(""), Num(5), Str("t")},
        tn \in {Undef, Str("1"), Num(0), Frac(1, 5), Num(1), Num(5)},
        tt \in {Undef, Str("3"), Num(0), Frac(2, 5), Num(3)},
        ntn \in {Undef, Str("true"), Bool(TRUE), Bool(FALSE)}}

\* the leniently parsed optional fields, on otherwise well-formed input
LenientInputs ==
    {ValidObject([isRevision |-> ir, revisesThought |-> rt, branchFromThought |-> bft,
                  branchId |-> bid, needsMoreThoughts |-> nmt]) :
        ir \in {Undef, Bool(TRUE), Bool(FALSE), Str("true")},
        rt \in {Undef, Num(2), Num(0), Frac(1, 5)},
        bft \in {Undef, Num(2), Num(0)},
        bid \in {Undef, Str(""), Str("A"), Str("B"), Str("constructor"), Num(3)},
        nmt \in {Undef, Bool(TRUE)}}

KaElements ==
    {Null,
     KaItem(Str("Texas"), Str("known")),
     KaItem(Str("Dallas"), Str("uncertain")),
     KaItem(Str("Austin"), Str("unknown")),
     KaItem(Str(""), Str("known")),
     KaItem(Num(1), Str("known")),
     KaItem(Str("Texas"), Str("maybe"))}

RECURSIVE SeqsUpTo(_, _)
SeqsUpTo(S, n) ==
    IF n = 0 THEN {<<>>}
    ELSE LET shorter == SeqsUpTo(S, n - 1) IN
         shorter \cup {Append(q, x) : q \in {r \in shorter : Len(r) = n - 1}, x \in S}

KaValues == {Null, Str("Texas")} \cup {Arr(q) : q \in SeqsUpTo(KaElements, MaxKaLen)}

ConfidenceValues ==
    {Num(0), Frac(0, 7), Num(1), Frac(1, 5), Frac(-1, 9), Num(2), NaN, Str("0.7"), Null}

\* knowledge_assessment and confidence_score, alone and together with an
\* earlier check that fails
StrictInputs ==
    {RawObject(c[1], Num(1), Num(3), c[2], [confidence_score |-> c[3], knowledge_assessment |-> ka]) :
        c \in {<<Str("t"), Bool(FALSE), Undef>>,
               <<Str("t"), Bool(FALSE), Frac(0, 7)>>,
               <<Str("t"), Bool(FALSE), Frac(1, 5)>>,
               <<Str("t"), Bool(FALSE), NaN>>,
               <<Undef, Bool(FALSE), Undef>>,
               <<Str("t"), Str("true"), Undef>>},
        ka \in KaValues}
    \cup {ValidObject([confidence_score |-> cs]) : cs \in ConfidenceValues}

\* well-formed input with every optional field present
FullInputs ==
    {RawObject(Str("t"), tn, Num(3), ntn,
               [confidence_score |-> cs, knowledge_assessment |-> Arr(ka),
                isRevision |-> Bool(TRUE), revisesThought |-> Num(2),
                branchFromThought |-> Num(2), branchId |-> Str("A"),
                needsMoreThoughts |-> Bool(TRUE)]) :
        tn \in {Num(1), Num(5)}, ntn \in {Bool(TRUE), Bool(FALSE)},
        cs \in {Num(0), Frac(0, 7), Num(1)},
        ka \in {q \in SeqsUpTo(KaElements, MaxKaLen) :
                    \A i \in 1..Len(q) : KaItemError(q[i], i - 1) = ""}}

\* arguments that are no object at all
NonObjectInputs == {Null, Undef, Num(7), Str("t"), Bool(TRUE), Arr(<<>>)}

\* a small repertoire for the calls that build up the store
CommonInputs ==
    {Null,
     RawObject(Str("t"), Num(1), Undef, Bool(TRUE), NoMore),
     RawObject(Str("t"), Num(1), Num(1), Bool(TRUE), NoMore),
     RawObject(Str("t"), Num(2), Num(1), Bool(FALSE), [branchFromThought |-> Num(2), branchId |-> Str("A")]),
     RawObject(Str("t"), Num(1), Num(2), Bool(TRUE), [branchFromThought |-> Num(2), branchId |-> Str("B")]),
     RawObject(Str("t"), Num(1), Num(1), Bool(TRUE), [branchFromThought |-> Num(1), branchId |-> Str("")]),
     RawObject(Str("t"), Num(1), Num(1), Bool(TRUE), [branchFromThought |-> Num(1), branchId |-> Str("constructor")]),
     RawObject(Str("t"), Num(1), Num(1), Bool(TRUE), [branchId |-> Str("A")])}

AllInputs ==
    CommonInputs \cup NonObjectInputs \cup RequiredInputs \cup LenientInputs
        \cup StrictInputs \cup FullInputs

\* The exploration is bounded by MaxCalls calls.  The last explored call takes
\* any input of AllInputs; the calls before it, which only build up the
\* history and the branches that call starts from, take CommonInputs.
InputsAt(n) ==
    IF n >= MaxCalls THEN {}
    ELSE IF n + 1 < MaxCalls THEN CommonInputs
    ELSE AllInputs

Init ==
    /\ thoughtHistory = <<>>
    /\ branches = [k \in {} |-> <<>>]
    /\ lastInput = Undef
    /\ lastResult = [content |-> [status |-> "none"]]
    /\ stderr = <<>>
    /\ calls = 0
    /\ successes = 0
    /\ handlers = <<>>

processThought(input) ==
    /\ calls < MaxCalls
    /\ LET o == ProcessThoughtOutcome(thoughtHistory, branches, input) IN
        /\ thoughtHistory' = o.history
        /\ branches' = o.branches
        /\ lastResult' = o.result
        /\ stderr' = o.stderr
        /\ successes' = IF "isError" \in DOMAIN o.result THEN successes ELSE successes + 1
    /\ lastInput' = input
    /\ calls' = calls + 1
    /\ UNCHANGED handlers

Next == \E input \in InputsAt(calls) : processThought(input)

Spec == Init /\ [][Next]_vars

(***************************************************************************)
(* The same program with several tool requests in flight.  The transport   *)
(* hands each request to the CallToolRequestSchema handler (index.ts       *)
(* 112-117), which calls processThought; here processThought is taken      *)
(* statement by statement, so that what lets two handlers overlap, or      *)
(* keeps them from it, is part of the model.                               *)
(***************************************************************************)
MaxRequests == 3

ConcurrentInputs ==
    {Null,
     RawObject(Str("t"), Num(1), Num(1), Bool(TRUE), NoMore),
     RawObject(Str("t"), Num(2), Num(1), Bool(FALSE), [branchFromThought |-> Num(1), branchId |-> Str("A")]),
     RawObject(Str("t"), Num(1), Num(1), Bool(TRUE), [branchFromThought |-> Num(1), branchId |-> Str("constructor")])}

NoResult == [content |-> [status |-> "none"]]

\* the handlers that are inside processThought: entered and not yet returned
Running == {id \in DOMAIN handlers : handlers[id].pc \in {"validated", "pushed", "branched"}}

\* (mutant) a handler may be entered while another is inside processThought,
\* as it could if processThought awaited between its statements
MayEnterWhileRunning(id) == handlers[id].pc = "received"

\* processThought is synchronous and the handler awaits nothing before or
\* inside it, so the event loop enters a handler only when no other handler
\* is inside processThought
MayEnter(id) == handlers[id].pc = "received" /\ Running = {}

\* a handler's return: the request is answered and the call is counted
Return(id, h, result, log) ==
    /\ handlers' = [handlers EXCEPT ![id] = [h EXCEPT !.pc = "done", !.result = result]]
    /\ lastInput' = h.input
    /\ lastResult' = result
    /\ stderr' = log
    /\ calls' = calls + 1
    /\ successes' = IF "isError" \in DOMAIN result THEN successes ELSE successes + 1

\* the transport delivers one more tool request
Dispatch(input) ==
    /\ Len(handlers) < MaxRequests
    /\ handlers' = Append(handlers, [input |-> input, pc |-> "received", step |-> Undef,
                                     log |-> <<>>, result |-> NoResult])
    /\ UNCHANGED <<thoughtHistory, branches, lastInput, lastResult, stderr, calls, successes>>

\* lines 224-230: validateThoughtData and the totalThoughts adjustment
Validate(id) ==
    /\ MayEnter(id)
    /\ LET h == handlers[id]
           v == validateThoughtData(h.input)
       IN IF v.thrown
          THEN /\ Return(id, h, FailureResponse(v.error), <<"error: " \o v.error>>)
               /\ UNCHANGED <<thoughtHistory, branches>>
          ELSE /\ handlers' = [handlers EXCEPT ![id] =
                                  [h EXCEPT !.pc = "validated", !.step = AdjustTotalThoughts(v.value),
                                            !.log = v.warnings \o AdjustWarnings(v.value)]]
               /\ UNCHANGED <<thoughtHistory, branches, lastInput, lastResult, stderr, calls,
                              successes>>

\* line 233: this.thoughtHistory.push(validatedInput)
Push(id) ==
    /\ handlers[id].pc = "validated"
    /\ thoughtHistory' = Append(thoughtHistory, handlers[id].step)
    /\ handlers' = [handlers EXCEPT ![id].pc = "pushed"]
    /\ UNCHANGED <<branches, lastInput, lastResult, stderr, calls, successes>>

\* lines 236-242: the branch bookkeeping, which may throw into the catch block
Branching(id) ==
    /\ handlers[id].pc = "pushed"
    /\ LET h == handlers[id]
           b == HandleBranching(branches, h.step)
       IN /\ branches' = b.branches
          /\ IF b.thrown
             THEN Return(id, h, FailureResponse(b.error), h.log \o b.log \o <<"error: " \o b.error>>)
             ELSE /\ handlers' = [handlers EXCEPT ![id] = [h EXCEPT !.pc = "branched", !.log = h.log \o b.log]]
                  /\ UNCHANGED <<lastInput, lastResult, stderr, calls, successes>>
    /\ UNCHANGED thoughtHistory

\* lines 245-263: the frame is logged and the success payload read off the store
Respond(id) ==
    /\ handlers[id].pc = "branched"
    /\ LET h == handlers[id] IN
          Return(id, h, SuccessResponse(h.step, thoughtHistory, branches), h.log \o <<"frame">>)
    /\ UNCHANGED <<thoughtHistory, branches>>

NextConcurrent ==
    \/ \E input \in ConcurrentInputs : Dispatch(input)
    \/ \E id \in DOMAIN handlers : Validate(id)
    \/ \E id \in DOMAIN handlers : Push(id)
    \/ \E id \in DOMAIN handlers : Branching(id)
    \/ \E id \in DOMAIN handlers : Respond(id)

SpecConcurrent == Init /\ [][NextConcurrent]_vars

\* The same calls over the inputs that differ in what formatThought shows:
\* one-line and two-line thoughts, the revision and branch fields in every
\* combination, with and without confidence_score and knowledge_assessment.
RenderInputs ==
    {RawObject(Str(th), tn, Num(3), Bool(TRUE),
               [isRevision |-> ir, revisesThought |-> rt, branchFromThought |-> bft,
                branchId |-> bid, confidence_score |-> cs, knowledge_assessment |-> ka]) :
        th \in {"t", TwoLineThought}, tn \in {Num(1), Num(12)},
        ir \in {Undef, Bool(TRUE), Bool(FALSE)}, rt \in {Undef, Num(2)},
        bft \in {Undef, Num(2)}, bid \in {Undef, Str(""), Str("A")},
        cs \in {Undef, Frac(0, 7)},
        ka \in {Undef} \cup {Arr(q) : q \in SeqsUpTo({KaItem(Str("Texas"), Str("known")),
                                                       KaItem(Str("Austin"), Str("uncertain"))},
                                                      MaxKaLen)}}

RenderCommonInputs ==
    {RawObject(Str("t"), Num(1), Num(1), Bool(TRUE), NoMore),
     RawObject(Str("t"), Num(2), Num(2), Bool(TRUE), [branchFromThought |-> Num(1), branchId |-> Str("A")])}

RenderInputsAt(n) ==
    IF n >= MaxCalls THEN {}
    ELSE IF n + 1 < MaxCalls THEN RenderCommonInputs
    ELSE RenderInputs

NextRender == \E input \in RenderInputsAt(calls) : processThought(input)

SpecRender == Init /\ [][NextRender]_vars

(***************************************************************************)
(* Vocabulary of the properties: the field constraints of a Step as the    *)
(* specification states them, and the two result shapes.                   *)
(***************************************************************************)
IsPositiveInteger(v) == v.t = "number" /\ ~v.nan /\ v.frac = 0 /\ v.int >= 1
IsNonEmptyText(v) == v.t = "string" /\ v.s # ""
InUnitInterval(v) == v.t = "number" /\ ~v.nan /\ (v.int = 0 \/ (v.int = 1 /\ v.frac = 0))
IsKaElement(v) ==
    /\ v.t = "object"
    /\ IsNonEmptyText(Get(v, "entity"))
    /\ Get(v, "status") \in {Str("known"), Str("unknown"), Str("uncertain")}

Present(input, key) == Get(input, key) # Undef

RequiredWellFormed(input) ==
    /\ input.t = "object"
    /\ IsNonEmptyText(Get(input, "thought"))
    /\ IsPositiveInteger(Get(input, "thoughtNumber"))
    /\ IsPositiveInteger(Get(input, "totalThoughts"))
    /\ Get(input, "nextThoughtNeeded").t = "boolean"

KaWellFormed(v) ==
    v.t = "array" /\ \A i \in 1..Len(v.items) : IsKaElement(v.items[i])

OptionalWellFormed(input) ==
    /\ Present(input, "confidence_score") => InUnitInterval(input.confidence_score)
    /\ Present(input, "knowledge_assessment") => KaWellFormed(input.knowledge_assessment)
    /\ Present(input, "isRevision") => input.isRevision.t = "boolean"
    /\ Present(input, "revisesThought") => IsPositiveInteger(input.revisesThought)
    /\ Present(input, "branchFromThought") => IsPositiveInteger(input.branchFromThought)
    /\ Present(input, "branchId") => input.branchId.t = "string"
    /\ Present(input, "needsMoreThoughts") => input.needsMoreThoughts.t = "boolean"

SatisfiesFieldConstraints(input) == RequiredWellFormed(input) /\ OptionalWellFormed(input)

IsSuccess(r) ==
    /\ DOMAIN r = {"content"}
    /\ DOMAIN r.content = {"status", "thought_number_processed", "current_total_thoughts",
                           "next_thought_needed", "active_branches", "total_history_length"}
    /\ r.content.status = "success"

IsFailure(r) ==
    /\ DOMAIN r = {"content", "isError"}
    /\ r.isError = TRUE
    /\ DOMAIN r.content = {"status", "error"}
    /\ r.content.status = "failed"

\* the step from before a processThought call to after it
CallStep == calls' = calls + 1

\* C1 (as claimed): every input that satisfies the field constraints, with any
\* string as branchId, returns Success and lengthens the history by exactly 1.
C1_ValidInputSucceeds ==
    [][(CallStep /\ SatisfiesFieldConstraints(lastInput'))
          => (IsSuccess(lastResult') /\ Len(thoughtHistory') = Len(thoughtHistory) + 1)]_vars

\* C2 (as claimed): a call that returns Failure leaves the history and the
\* branch mapping exactly as they were before the call.
C2_FailureStoresNothing ==
    [][(CallStep /\ IsFailure(lastResult'))
          => (thoughtHistory' = thoughtHistory /\ branches' = branches)]_vars

\* C3: an input in which a required field is missing, mistyped, empty (thought)
\* or not an integer >= 1 (the numbers) returns Failure and leaves the history
\* length unchanged, whatever the other fields and the prior state.
C3_RequiredFieldFailure ==
    [][(CallStep /\ ~RequiredWellFormed(lastInput'))
          => (IsFailure(lastResult') /\ Len(thoughtHistory') = Len(thoughtHistory))]_vars

\* C3 witness: after two stored steps, a call whose input has a valid thought,
\* a fractional thoughtNumber and a malformed optional field has failed.
C3_Witness ==
    /\ Len(thoughtHistory) = 2
    /\ lastInput.t = "object"
    /\ IsNonEmptyText(Get(lastInput, "thought"))
    /\ Get(lastInput, "thoughtNumber") = Frac(1, 5)
    /\ IsFailure(lastResult)
    /\ lastResult.content.error = MsgThoughtNumber

\* C4: every call, on any raw input, returns exactly one of the two result
\* shapes; a Failure is flagged isError, a Success is not.
C4_ResultShape ==
    calls > 0 =>
        /\ IsSuccess(lastResult) \/ IsFailure(lastResult)
        /\ ~(IsSuccess(lastResult) /\ IsFailure(lastResult))

\* C4 witness: a call on null, made on a store that already holds a step, has
\* returned a Failure carrying the TypeError's message.
C4_Witness ==
    /\ lastInput = Null
    /\ Len(thoughtHistory) > 0
    /\ IsFailure(lastResult)
    /\ lastResult.content.error = MsgNullish(Null)

\* the Steps of the history that carried branchFromThought and branchId = b
\* (a branchId being non-empty text, as the Step constraints have it)
BranchSteps(b) ==
    LET Carries(step) == IsPositiveInteger(step.branchFromThought) /\ step.branchId = Str(b)
    IN SelectSeq(thoughtHistory, Carries)

\* the branchId values of the Steps that carried both branch fields
BranchIdsCarried ==
    {thoughtHistory[i].branchId.s :
        i \in {j \in 1..Len(thoughtHistory) :
                  /\ IsPositiveInteger(thoughtHistory[j].branchFromThought)
                  /\ IsNonEmptyText(thoughtHistory[j].branchId)}}

\* C5 (as claimed): the branch mapping is derived from the history: its keys
\* (active_branches) are exactly the branchId values of the Steps that carried
\* both branch fields, and the sequence under b is the ordered subsequence of
\* the history's Steps with branchId = b.
C5_BranchesDerived ==
    /\ DOMAIN branches = BranchIdsCarried
    /\ \A b \in DOMAIN branches : branches[b] = BranchSteps(b)

Max(a, b) == IF a > b THEN a ELSE b
Last(q) == q[Len(q)]

\* every Step stored in the history and in the branches has totalThoughts >= thoughtNumber
TotalCoversNumber ==
    /\ \A i \in 1..Len(thoughtHistory) :
          thoughtHistory[i].totalThoughts.int >= thoughtHistory[i].thoughtNumber.int
    /\ \A b \in DOMAIN branches : \A i \in 1..Len(branches[b]) :
          branches[b][i].totalThoughts.int >= branches[b][i].thoughtNumber.int

\* C6: stored totalThoughts is never below thoughtNumber; a call whose input
\* satisfies the field constraints stores thoughtNumber as totalThoughts when
\* thoughtNumber exceeds the input's totalThoughts and the input's totalThoughts
\* otherwise, and a Success reports the same number as current_total_thoughts.
C6_TotalAdjusted ==
    [][CallStep =>
        /\ TotalCoversNumber'
        /\ SatisfiesFieldConstraints(lastInput') =>
            /\ Len(thoughtHistory') = Len(thoughtHistory) + 1
            /\ Last(thoughtHistory').totalThoughts
                   = Num(Max(lastInput'.thoughtNumber.int, lastInput'.totalThoughts.int))
            /\ IsSuccess(lastResult') =>
                   lastResult'.content.current_total_thoughts
                       = Max(lastInput'.thoughtNumber.int, lastInput'.totalThoughts.int)]_vars

\* C6 witness: the input 5/3 was stored in a branch and reported with total 5.
C6_Witness ==
    /\ lastInput.t = "object"
    /\ Get(lastInput, "thoughtNumber") = Num(5)
    /\ Get(lastInput, "totalThoughts") = Num(3)
    /\ IsSuccess(lastResult)
    /\ lastResult.content.current_total_thoughts = 5
    /\ Last(thoughtHistory).totalThoughts = Num(5)
    /\ "A" \in DOMAIN branches
    /\ Last(branches["A"]).totalThoughts = Num(5)

IsPrefix(p, q) == Len(p) <= Len(q) /\ SubSeq(q, 1, Len(p)) = p

\* C7: history and branches start empty and only grow at the end: the old
\* history is a prefix of the new one, every branch stays and its old sequence
\* is a prefix of its new one, and the store changes only in a call whose
\* input the validator returned a Step for.
C7_AppendOnly ==
    /\ thoughtHistory = <<>> /\ DOMAIN branches = {}
    /\ [][/\ IsPrefix(thoughtHistory, thoughtHistory')
          /\ \A b \in DOMAIN branches :
                b \in DOMAIN branches' /\ IsPrefix(branches[b], branches'[b])
          /\ (thoughtHistory' # thoughtHistory \/ branches' # branches)
                => (CallStep /\ RequiredWellFormed(lastInput')
                             /\ ~validateThoughtData(lastInput').thrown)]_vars

\* C7 witness: branch A holds two steps and the history three, the last call
\* having failed validation without touching either.
C7_Witness ==
    /\ calls = MaxCalls
    /\ Len(thoughtHistory) = 2
    /\ "A" \in DOMAIN branches /\ Len(branches["A"]) = 2
    /\ IsFailure(lastResult)
    /\ ~RequiredWellFormed(lastInput)

\* the field constraints of a stored Step
StepWellFormed(step) ==
    /\ IsNonEmptyText(step.thought)
    /\ IsPositiveInteger(step.thoughtNumber)
    /\ IsPositiveInteger(step.totalThoughts)
    /\ step.nextThoughtNeeded.t = "boolean"
    /\ step.confidence_score = Undef \/ InUnitInterval(step.confidence_score)
    /\ step.knowledge_assessment = Undef \/ KaWellFormed(step.knowledge_assessment)
    /\ step.isRevision = Undef \/ step.isRevision.t = "boolean"
    /\ step.revisesThought = Undef \/ IsPositiveInteger(step.revisesThought)
    /\ step.branchFromThought = Undef \/ IsPositiveInteger(step.branchFromThought)
    /\ step.branchId = Undef \/ IsNonEmptyText(step.branchId)

\* C8 (as claimed): every Step in the history satisfies the Step field
\* constraints; in particular no stored Step has an empty-string branchId.
C8_StoredStepsWellFormed ==
    \A i \in 1..Len(thoughtHistory) : StepWellFormed(thoughtHistory[i])

\* C9: after a successful call the appended Step holds every accepted field of
\* the input with the same value (knowledge assessment entries in order),
\* totalThoughts differs only by the adjustment to thoughtNumber, and the
\* deprecated needsMoreThoughts never appears in it.
C9_RoundTrip ==
    (calls > 0 /\ IsSuccess(lastResult)) =>
        LET step == Last(thoughtHistory)
            ka == Get(lastInput, "knowledge_assessment")
        IN
        /\ step.thought = lastInput.thought
        /\ step.thoughtNumber = lastInput.thoughtNumber
        /\ step.nextThoughtNeeded = lastInput.nextThoughtNeeded
        /\ step.totalThoughts
              = Num(Max(lastInput.thoughtNumber.int, lastInput.totalThoughts.int))
        /\ step.confidence_score = Get(lastInput, "confidence_score")
        /\ IF ka = Undef THEN step.knowledge_assessment = Undef
           ELSE /\ step.knowledge_assessment.t = "array"
                /\ Len(step.knowledge_assessment.items) = Len(ka.items)
                /\ \A i \in 1..Len(ka.items) :
                      /\ step.knowledge_assessment.items[i].entity = ka.items[i].entity
                      /\ step.knowledge_assessment.items[i].status = ka.items[i].status
        /\ Get(lastInput, "isRevision").t = "boolean"
              => step.isRevision = lastInput.isRevision
        /\ IsPositiveInteger(Get(lastInput, "revisesThought"))
              => step.revisesThought = lastInput.revisesThought
        /\ IsPositiveInteger(Get(lastInput, "branchFromThought"))
              => step.branchFromThought = lastInput.branchFromThought
        /\ Get(lastInput, "branchId").t = "string"
              => step.branchId = lastInput.branchId
        /\ "needsMoreThoughts" \notin DOMAIN step

\* C9 witness: a successful call whose input had every optional field,
\* the deprecated flag, two knowledge entries and thoughtNumber 5 of 3.
C9_Witness ==
    /\ IsSuccess(lastResult)
    /\ Len(thoughtHistory) > 1
    /\ Get(lastInput, "needsMoreThoughts") = Bool(TRUE)
    /\ Get(lastInput, "thoughtNumber") = Num(5)
    /\ Get(lastInput, "confidence_score") = Frac(0, 7)
    /\ Get(lastInput, "revisesThought") = Num(2)
    /\ Get(lastInput, "branchId") = Str("A")
    /\ Len(Last(thoughtHistory).knowledge_assessment.items) = 2

\* knowledge_assessment is present and is no sequence or has an offending element
KaOffending(input) ==
    Present(input, "knowledge_assessment") /\ ~KaWellFormed(input.knowledge_assessment)

\* the 0-based index of the first offending element of an array
FirstOffendingIndex(ka) ==
    CHOOSE n \in 0..Len(ka.items) - 1 :
        /\ ~IsKaElement(ka.items[n + 1])
        /\ \A m \in 0..n - 1 : IsKaElement(ka.items[m + 1])

NamesIndex(error, n) == error \in {MsgKaObject(n), MsgKaEntity(n), MsgKaStatus(n)}

\* C10 (as claimed): whenever knowledge_assessment is present and is no
\* sequence or has an offending element, the call returns Failure, stores
\* nothing and, for an offending element, the message names the index of the
\* first one.
C10_KaFailureAlwaysNamesIndex ==
    [][(CallStep /\ KaOffending(lastInput')) =>
          /\ IsFailure(lastResult')
          /\ thoughtHistory' = thoughtHistory /\ branches' = branches
          /\ lastInput'.knowledge_assessment.t = "array" =>
                NamesIndex(lastResult'.content.error,
                           FirstOffendingIndex(lastInput'.knowledge_assessment))]_vars

\* C10 (amended): such a call always returns Failure and stores nothing; when
\* the required fields are well-formed and confidence_score, if present, lies
\* in [0, 1], the message names the index of the first offending element.
C10_KaFailure ==
    [][(CallStep /\ KaOffending(lastInput')) =>
          /\ IsFailure(lastResult')
          /\ thoughtHistory' = thoughtHistory /\ branches' = branches
          /\ ( /\ RequiredWellFormed(lastInput')
               /\ Present(lastInput', "confidence_score")
                     => InUnitInterval(lastInput'.confidence_score)
               /\ lastInput'.knowledge_assessment.t = "array" ) =>
                NamesIndex(lastResult'.content.error,
                           FirstOffendingIndex(lastInput'.knowledge_assessment))]_vars

\* C10 witness: [{Texas, known}, {"", known}] on otherwise well-formed input,
\* submitted to a store that holds a step, has failed citing index 1.
C10_Witness ==
    /\ Len(thoughtHistory) > 0
    /\ RequiredWellFormed(lastInput)
    /\ Get(lastInput, "knowledge_assessment")
          = Arr(<<KaItem(Str("Texas"), Str("known")), KaItem(Str(""), Str("known"))>>)
    /\ IsFailure(lastResult)
    /\ lastResult.content.error = MsgKaEntity(1)

\* C11 (as claimed): with the required fields valid, a present confidence_score
\* that is no number or lies outside [0.0, 1.0] returns a Failure citing the
\* confidence field and stores nothing; a present confidence_score inside the
\* interval, 0.0 and 1.0 included, never causes the Failure and is stored
\* unchanged with the Step.
C11_ConfidenceRange ==
    [][(CallStep /\ RequiredWellFormed(lastInput') /\ Present(lastInput', "confidence_score"))
          => IF InUnitInterval(lastInput'.confidence_score)
             THEN /\ IsFailure(lastResult') => lastResult'.content.error # MsgConfidence
                  /\ Len(thoughtHistory') = Len(thoughtHistory) + 1
                        => Last(thoughtHistory').confidence_score = lastInput'.confidence_score
             ELSE /\ IsFailure(lastResult')
                  /\ lastResult'.content.error = MsgConfidence
                  /\ thoughtHistory' = thoughtHistory
                  /\ branches' = branches]_vars

\* an input with one of the inconsistencies that are only warned about
AdvisoryInconsistent(input) ==
    \/ Get(input, "isRevision") = Bool(TRUE) /\ ~Present(input, "revisesThought")
    \/ Present(input, "branchFromThought") /\ ~Present(input, "branchId")
    \/ Present(input, "needsMoreThoughts")

\* C12 (as claimed): an input that satisfies the field constraints and in which
\* isRevision is true without revisesThought, or branchFromThought is present
\* without branchId, or the deprecated flag is present, returns Success and is
\* appended to the history; with branchFromThought and no branchId the Step
\* joins no branch and creates no branch identifier.
C12_AdvisoryNeverBlocks ==
    [][(CallStep /\ SatisfiesFieldConstraints(lastInput') /\ AdvisoryInconsistent(lastInput'))
          => /\ IsSuccess(lastResult')
             /\ Len(thoughtHistory') = Len(thoughtHistory) + 1
             /\ IsPrefix(thoughtHistory, thoughtHistory')
             /\ Last(thoughtHistory').thought = lastInput'.thought
             /\ ~Present(lastInput', "branchId") => branches' = branches]_vars

\* the message of the first check, in the order the specification fixes, that
\* the input violates; "" when it violates none
FirstViolatedCheck(input) ==
    LET cs == Get(input, "confidence_score")
        ka == Get(input, "knowledge_assessment")
    IN  IF ~IsNonEmptyText(Get(input, "thought")) THEN MsgThought
        ELSE IF ~IsPositiveInteger(Get(input, "thoughtNumber")) THEN MsgThoughtNumber
        ELSE IF ~IsPositiveInteger(Get(input, "totalThoughts")) THEN MsgTotalThoughts
        ELSE IF Get(input, "nextThoughtNeeded").t # "boolean" THEN MsgNextThoughtNeeded
        ELSE IF cs # Undef /\ ~InUnitInterval(cs) THEN MsgConfidence
        ELSE IF ka = Undef \/ KaWellFormed(ka) THEN ""
        ELSE IF ka.t # "array" THEN MsgKaArray
        ELSE LET n == FirstOffendingIndex(ka)
                 item == ka.items[n + 1]
             IN  IF item.t # "object" THEN MsgKaObject(n)
                 ELSE IF ~IsNonEmptyText(Get(item, "entity")) THEN MsgKaEntity(n)
                 ELSE MsgKaStatus(n)

\* C13 (as claimed): a call on a record that violates one or several checks
\* returns a Failure whose single message is that of the first violated check
\* in the order thought, thoughtNumber, totalThoughts, nextThoughtNeeded,
\* confidence_score, knowledge_assessment (its elements by increasing index,
\* each as object, entity, status).
C13_FirstViolationReported ==
    [][(CallStep /\ lastInput' \notin {Null, Undef} /\ FirstViolatedCheck(lastInput') # "")
          => (IsFailure(lastResult') /\ lastResult'.content.error = FirstViolatedCheck(lastInput'))]_vars

\* the requests that were answered, and those answered with a Success
Answered == {id \in DOMAIN handlers : handlers[id].pc = "done"}
Succeeded == {id \in Answered : IsSuccess(handlers[id].result)}

\* running the requests of order one after the other from the store (hist, br)
\* gives each its recorded answer and ends in the present store
RECURSIVE SerialRunMatches(_, _, _)
SerialRunMatches(hist, br, order) ==
    IF order = <<>> THEN hist = thoughtHistory /\ br = branches
    ELSE LET o == ProcessThoughtOutcome(hist, br, handlers[Head(order)].input) IN
         /\ o.result = handlers[Head(order)].result
         /\ SerialRunMatches(o.history, o.branches, Tail(order))

\* the answered requests in every order
SerialOrders ==
    {order \in [1..Cardinality(Answered) -> Answered] :
        \A i, j \in 1..Cardinality(Answered) : i # j => order[i] # order[j]}

\* C14: with several tool requests in flight on the one store, whenever no
\* handler is inside processThought the store and every answer given so far
\* are those of running the answered requests one after the other in some
\* order (no append lost or duplicated), and the total_history_length values
\* of the Successes are pairwise distinct.
C14_Serialized ==
    /\ \A a, b \in Succeeded :
          a # b => handlers[a].result.content.total_history_length
                      # handlers[b].result.content.total_history_length
    /\ Running = {} =>
          \E order \in SerialOrders : SerialRunMatches(<<>>, [k \in {} |-> <<>>], order)

\* C14 witness: three requests are in flight; the third was answered first and
\* the second after it, both with a Success, while the first still waits.
C14_Witness ==
    /\ Len(handlers) = 3
    /\ handlers[1].pc = "received"
    /\ Succeeded = {2, 3}
    /\ handlers[3].result.content.total_history_length = 1
    /\ handlers[2].result.content.total_history_length = 2
    /\ Len(thoughtHistory) = 2

\* lines 245-246: the text of the "frame" entry of stderr,
\* formatThought(validatedInput), validatedInput being the Step pushed at line 233
FrameLogged == Len(stderr) > 0 /\ Last(stderr) = "frame"
LoggedFrame(colored) == formatThought(Last(thoughtHistory), colored)

\* the lines of the logged frame, top border first (the text starts with "\n")
FrameLines(colored) == Tail(Split(LoggedFrame(colored)))

\* the characters of a string that are left once control sequences are ignored
RECURSIVE PlainText(_)
PlainText(str) ==
    IF str = <<>> THEN ""
    ELSE (IF Head(str).k = "txt" THEN Head(str).s ELSE "") \o PlainText(Tail(str))

DisplayWidth(str) == Len(PlainText(str))

\* the kind of a Step by the priority rule: Revision, else Branch, else Thought
ExpectedKind(step) ==
    IF step.isRevision = Bool(TRUE) /\ IsPositiveInteger(step.revisesThought) THEN "revision"
    ELSE IF IsPositiveInteger(step.branchFromThought) /\ IsNonEmptyText(step.branchId) THEN "branch"
    ELSE "thought"

\* <label> <thoughtNumber>/<totalThoughts><context suffix>
ExpectedHeader(step) ==
    LET kind == ExpectedKind(step)
        numbers == " " \o ToString(step.thoughtNumber.int) \o "/" \o ToString(step.totalThoughts.int)
    IN  CASE kind = "revision" ->
               RevisionLabel \o numbers \o " (revising thought " \o ToString(step.revisesThought.int) \o ")"
          [] kind = "branch" ->
               BranchLabel \o numbers \o " (from thought " \o ToString(step.branchFromThought.int)
                   \o ", ID: " \o step.branchId.s \o ")"
          [] kind = "thought" -> ThoughtLabel \o numbers

\* the row holds exactly this text between its bars, followed only by padding
RowShows(row, text) ==
    LET plain == PlainText(row)
        pad == Len(plain) - Len(text) - 2 * Len(Vertical) - 2
    IN  pad >= 0 /\ plain = Vertical \o " " \o text \o Repeat(" ", pad) \o " " \o Vertical

\* C15: the header of every logged frame is that of exactly one kind, chosen
\* by priority: Revision when isRevision is true and revisesThought present,
\* else Branch when branchFromThought and branchId are present, else Thought;
\* it reads <label> <thoughtNumber>/<totalThoughts><context suffix>, so a Step
\* that both revises and branches names the revised step and not the branch.
C15_HeaderByPriority ==
    FrameLogged =>
        \A colored \in BOOLEAN :
            RowShows(FrameLines(colored)[2], ExpectedHeader(Last(thoughtHistory)))

\* C15 witness: a Step that revises thought 2 and branches from thought 2 as
\* "A" was logged under the Revision header.
C15_Witness ==
    /\ FrameLogged
    /\ Last(thoughtHistory).isRevision = Bool(TRUE)
    /\ Last(thoughtHistory).revisesThought = Num(2)
    /\ Last(thoughtHistory).branchFromThought = Num(2)
    /\ Last(thoughtHistory).branchId = Str("A")
    /\ Last(thoughtHistory).thoughtNumber = Num(12)
    /\ ThoughtKind(Last(thoughtHistory)) = "revision"
    /\ PlainText(Header(Last(thoughtHistory), TRUE)) = "**** Revision 12/12 (revising thought 2)"

\* C16 (as claimed): in every logged frame, with colours on or off, the header
\* row, every content row and both borders have the same display width once
\* control sequences are ignored.
C16_RowsAndBordersAligned ==
    FrameLogged =>
        \A colored \in BOOLEAN :
        LET lines == FrameLines(colored)
            Aligned == {i \in 1..Len(lines) :
                           \/ i \in {1, Len(lines)}
                           \/ lines[i][1] = Txt(Vertical)}
        IN \A i, j \in Aligned : DisplayWidth(lines[i]) = DisplayWidth(lines[j])

\* C17 (as claimed): the n-th call that returns Success reports
\* total_history_length = n, the number of calls that have returned Success
\* so far (a Failure contributes nothing), and echoes the input's thoughtNumber
\* and nextThoughtNeeded as thought_number_processed and next_thought_needed.
C17_LengthCountsSuccesses ==
    IsSuccess(lastResult) =>
        /\ lastResult.content.total_history_length = successes
        /\ lastResult.content.thought_number_processed = lastInput.thoughtNumber.int
        /\ lastResult.content.next_thought_needed = lastInput.nextThoughtNeeded.b
=============================================================================
